---- MODULE Spec2Model ----
(***************************************************************************)
(* A model of the rssant worker service (rssant_worker/worker_service.py): *)
(* feed discovery (find_feed), feed synchronisation (sync_feed), result    *)
(* normalisation (_parse_found, _get_storys, validate_feed), the story    *)
(* fetch (fetch_story, _fetch_story, _process_story_webpage) and the DNS   *)
(* refresh thread (_dns_refresh_main).  Collaborators that live outside    *)
(* the worker service (transport, finder, raw parser, checksum engine,     *)
(* validators, content extractor, DNS service, Result Sink) are the        *)
(* environment: their outcomes are drawn with \E.                          *)
(***************************************************************************)
EXTENDS Integers, Sequences, FiniteSets, TLC

VARIABLES
    pc,         \* position of the running invocation ("idle" between invocations)
    args,       \* arguments of the running invocation
    env,        \* what the collaborators answer about the url and the reader
    use_proxy,  \* the local variable use_proxy of the running invocation
    response,   \* the local variable response (the response retained so far)
    need_proxy, \* the local variable need_proxy of sync_feed
    proxy_response, \* the local variable proxy_response of sync_feed
    found,      \* find_feed: what the finder returned; sync_feed: (response, raw_result)
    messages,   \* find_feed: the messages list filled by message_handler
    url,        \* _fetch_story: the local variable url
    content,    \* _fetch_story: the local variable content
    iter,       \* _fetch_story: the iterations of the loop that ran to their end
    result,     \* fetch_story: the result returned
    log,        \* what the invocation did so far: transport reads, parses, sink calls
    dns_pc,     \* _dns_refresh_main: position of the DNS refresh thread
    dns_log     \* _dns_refresh_main: the latest steps of the thread, oldest first

storyVars == <<url, content, iter, result>>

dnsVars == <<dns_pc, dns_log>>

vars == <<pc, args, env, use_proxy, response, need_proxy, proxy_response, found,
          messages, log, storyVars, dnsVars>>

-----------------------------------------------------------------------------
(* Bounds of the model *)

MaxEntries == 3     \* longest raw entry list handed to _parse_found directly
MaxFeedEntries == 2 \* longest raw entry list of a document of find_feed and sync_feed
MaxTime == 2        \* dt_published ranges over 1..MaxTime
MaxMessages == 1    \* most messages the finder emits during discovery
MaxBody == 1        \* longest body of a story page, in tokens
MaxSentences == 1   \* most sentences counted in a story or given as the hint
MaxDnsLog == 10     \* steps of the DNS refresh thread kept in dns_log

-----------------------------------------------------------------------------
(* Values *)

None == "None"

UPDATING == "updating"
READY == "ready"
ERROR == "error"

\* Response statuses: 200, 304 (not modified), 404, and -200, the transport's
\* connection error.
Statuses == {200, 304, 404, -200}

\* FeedResponseStatus.is_need_proxy: membership in a defined set of statuses.
NeedProxyStatusSet == {-200}
is_need_proxy(status) == status \in NeedProxyStatusSet

\* Response bodies of a feed document; "" is the empty body.
Contents == {"", "A"}

\* compute_hash_base64: a function of the content.
compute_hash_base64(data) == "hash:" \o data

\* content_hash_base64 as the caller supplies it: absent, the hash of "A", or
\* the hash of some other content.
HashArgs == {None, compute_hash_base64("A"), compute_hash_base64("B")}

\* Conditional-fetch tokens as the caller supplies them.
TokenArgs == {[etag |-> None, last_modified |-> None],
              [etag |-> "etag1", last_modified |-> "lm1"]}

\* What the transport can answer to a read.
FeedResponses(proxy) ==
    [status : Statuses, ok : BOOLEAN, content : Contents, use_proxy : {proxy}]

NoResponse == [status |-> 0, ok |-> FALSE, content |-> "", use_proxy |-> FALSE]

\* A raw entry as the raw parser yields it.  ident is the entry's fingerprint
\* (its arrival position), dt_published the publish time its story gets, and
\* schema_ok whether its story passes the story schema.
RawEntry(i, dt, sok) == [ident |-> i, dt_published |-> dt, schema_ok |-> sok]

Times == 1..MaxTime

RawEntryLists(maxLen) ==
    UNION {
        {[i \in 1..n |-> RawEntry(i, f[i][1], f[i][2])] :
            f \in [1..n -> Times \X BOOLEAN]}
        : n \in 0..maxLen}

\* The parser's warnings of a raw result.
WarningLists == {<<>>, <<"w1", "w2">>}

\* checksum_data_base64 as the caller supplies it, decoded: the fingerprints
\* seen before, oldest first; <<>> is the empty or absent history.
ChecksumArgs == {<<>>, <<1>>}

\* result.checksum.dump(limit=300): the most fingerprints a feed reports.
ChecksumDumpLimit == 300

\* The content of _fetch_story: None, or the decoded text.
NoContent == [none |-> TRUE, text |-> <<>>]
NoResult == [keys |-> {}]

NoArgs == [op |-> "none"]
NoEnv == [resolved |-> FALSE, tagged |-> FALSE, has_proxy |-> FALSE, drop |-> FALSE]
NoFound == [present |-> FALSE]

RECURSIVE JoinWarnings(_)
JoinWarnings(ws) ==
    IF Len(ws) = 1 THEN ws[1] ELSE ws[1] \o "; " \o JoinWarnings(Tail(ws))

-----------------------------------------------------------------------------
(* Log events *)

ReadEvent(proxy, params) ==
    [kind |-> "read", use_proxy |-> proxy, params |-> params]

SinkEvent(call, payload) ==
    [kind |-> "sink", call |-> call, payload |-> payload]

StepEvent(kind) == [kind |-> kind]

Reads == SelectSeq(log, LAMBDA e : e.kind = "read")
SinkCalls == SelectSeq(log, LAMBDA e : e.kind = "sink")
Count(kind) == Len(SelectSeq(log, LAMBDA e : e.kind = kind))

-----------------------------------------------------------------------------
(* Result normalisation: _parse_found, _get_storys, validate_feed *)

\* What the raw parser can yield for a response.  fate is what the later
\* stages will do with this document: "ok", "FeedParserError" (the feed parser
\* raises) or "Invalid" (the feed schema rejects the feed).  The storys of a
\* rejected document are never reported, so one entry at most stands for them.
RawFeedResults(maxLen) ==
    {r \in [storys : RawEntryLists(maxLen), warnings : WarningLists,
            fate : {"ok", "FeedParserError", "Invalid"}] :
        r.fate # "ok" => Len(r.storys) <= 1}

NoFeed == [present |-> FALSE]

\* FeedParser(checksum).parse(raw_result): the entries whose fingerprint is not
\* in the history, and the history followed by their fingerprints, in the
\* order of the document.
\* A checksum that was not loaded (checksum=None) is the empty history.
FeedParserParse(checksum, raw_result) ==
    LET history == IF checksum.loaded THEN checksum.history ELSE <<>>
        known == {history[i] : i \in 1..Len(history)}
        fresh == SelectSeq(raw_result.storys, LAMBDA e : e.ident \notin known)
    IN  [storys |-> fresh,
         checksum |-> history \o [i \in 1..Len(fresh) |-> fresh[i].ident]]

\* checksum.dump(limit): the most recent limit fingerprints, the oldest dropped.
dump(checksum, limit) ==
    IF Len(checksum) <= limit THEN checksum
    ELSE SubSeq(checksum, Len(checksum) - limit + 1, Len(checksum))

\* get_story_of_feed_entry: the story of a raw entry.
get_story_of_feed_entry(data) ==
    [ident |-> data.ident, dt_published |-> data.dt_published,
     schema_ok |-> data.schema_ok]

\* sorted(storys, key=dt_published, reverse=True): a stable sort, so that
\* storys of equal dt_published keep their order.
RECURSIVE InsertByTimeDesc(_, _)
InsertByTimeDesc(sorted, story) ==
    IF sorted = <<>> THEN <<story>>
    ELSE IF Head(sorted).dt_published >= story.dt_published
         THEN <<Head(sorted)>> \o InsertByTimeDesc(Tail(sorted), story)
         ELSE <<story>> \o sorted

RECURSIVE SortedByTimeDesc(_)
SortedByTimeDesc(storys) ==
    IF storys = <<>> THEN <<>>
    ELSE InsertByTimeDesc(SortedByTimeDesc(SubSeq(storys, 1, Len(storys) - 1)),
                          storys[Len(storys)])

\* _get_storys without the sort.
Mut_get_storys(entries) ==
    [i \in 1..Len(entries) |-> get_story_of_feed_entry(entries[i])]

_get_storys(entries) ==
    LET storys == [i \in 1..Len(entries) |-> get_story_of_feed_entry(entries[i])]
    IN  SortedByTimeDesc(storys)

\* The loop of validate_feed leaving at the first story the schema rejects.
RECURSIVE MutValidStorys(_)
MutValidStorys(storys) ==
    IF storys = <<>> THEN <<>>
    ELSE IF Head(storys).schema_ok
         THEN <<Head(storys)>> \o MutValidStorys(Tail(storys))
         ELSE <<>>

\* The loop of validate_feed over feed_data['storys']: a story the story schema
\* rejects is logged and skipped, any other story is appended.
RECURSIVE ValidStorys(_)
ValidStorys(storys) ==
    IF storys = <<>> THEN <<>>
    ELSE IF Head(storys).schema_ok
         THEN <<Head(storys)>> \o ValidStorys(Tail(storys))
         ELSE ValidStorys(Tail(storys))

\* validate_feed(feed): raises Invalid when the feed schema rejects the feed,
\* and returns the feed with the storys that pass the story schema otherwise.
validate_feed(feed, feed_schema_ok) ==
    IF ~feed_schema_ok
    THEN [exc |-> "Invalid", message |-> "invalid feed, feed=url", feed |-> NoFeed]
    ELSE [exc |-> None, message |-> "",
          feed |-> [feed EXCEPT !.storys = ValidStorys(feed.storys)]]

\* _parse_found(found, checksum_data_base64, is_refresh).  The result names the
\* exception raised (None when it returns), the feed returned, the checksum the
\* feed parser was built with and the storys handed to validate_feed.
_parse_found(fnd, checksum_data, is_refresh) ==
    LET resp == fnd.response
        raw_result == fnd.raw_result
        load == checksum_data # <<>> /\ ~is_refresh
        checksum == [loaded |-> load,
                     history |-> IF load THEN checksum_data ELSE <<>>]
        parse_result == FeedParserParse(checksum, raw_result)
        feed == [present |-> TRUE,
                 use_proxy |-> resp.use_proxy,
                 content_hash_base64 |-> compute_hash_base64(resp.content),
                 response_status |-> resp.status,
                 storys |-> _get_storys(parse_result.storys),
                 checksum_data |-> dump(parse_result.checksum, ChecksumDumpLimit),
                 warnings |-> IF raw_result.warnings # <<>>
                              THEN JoinWarnings(raw_result.warnings) ELSE None]
        validated == validate_feed(feed, raw_result.fate # "Invalid")
    IN  IF raw_result.fate = "FeedParserError"
        THEN [exc |-> "FeedParserError", message |-> "feed parser error",
              feed |-> NoFeed, checksum |-> checksum, validate_input |-> <<>>]
        ELSE [exc |-> validated.exc, message |-> validated.message,
              feed |-> validated.feed, checksum |-> checksum,
              validate_input |-> feed.storys]

\* The log events of a _parse_found call.
ParseFoundEvents(parsed) ==
    <<[kind |-> "feed_parse", checksum |-> parsed.checksum]>>
    \o (IF parsed.exc = "FeedParserError" THEN <<>>
        ELSE <<[kind |-> "validate_feed", storys |-> parsed.validate_input]>>)

-----------------------------------------------------------------------------
(* sync_feed *)

\* ProxyDecision with the DNS override lost.
MutProxyDecisionNoDns(arg_use_proxy, resolved, has_proxy, drop, tagged) ==
    LET afterReader == has_proxy /\ arg_use_proxy
        afterDrop == IF afterReader /\ drop THEN FALSE ELSE afterReader
    IN  IF tagged THEN TRUE ELSE afterDrop

\* ProxyDecision with the proxy tag applied before the reader's has_proxy.
MutProxyDecisionTagFirst(arg_use_proxy, resolved, has_proxy, drop, tagged) ==
    LET afterDns == IF resolved THEN FALSE ELSE arg_use_proxy
        afterTag == IF tagged THEN TRUE ELSE afterDns
        afterReader == has_proxy /\ afterTag
    IN  IF afterReader /\ drop THEN FALSE ELSE afterReader

\* The proxy decision of sync_feed before its first read.  drop is the outcome
\* of random.random() < switch_prob.
ProxyDecision(arg_use_proxy, resolved, has_proxy, drop, tagged) ==
    LET afterDns == IF resolved THEN FALSE ELSE arg_use_proxy
        afterReader == has_proxy /\ afterDns
        afterDrop == IF afterReader /\ drop THEN FALSE ELSE afterReader
    IN  IF tagged THEN TRUE ELSE afterDrop

\* FetchParams that sends the caller's tokens on a forced refresh too.
MutFetchParams(a) == [etag |-> a.etag, last_modified |-> a.last_modified]

\* The fetch parameters: the conditional tokens unless this is a forced refresh.
FetchParams(a) ==
    IF ~a.is_refresh
    THEN [etag |-> a.etag, last_modified |-> a.last_modified]
    ELSE [etag |-> None, last_modified |-> None]

\* The condition of the second read, by proxy.
NeedProxyRetry(used_proxy, has_proxy, need) ==
    (~used_proxy) /\ has_proxy /\ need

\* RetainedResponse that always takes the proxy response.
MutRetainedResponse(first, second) == second

\* The response retained after the proxy read.
RetainedResponse(first, second) == IF second.ok THEN second ELSE first

\* The condition of the failed-or-empty path.
IsFailedFetch(resp) == (~resp.ok) \/ (resp.content = "")

\* FailedFetchStatus that takes every empty response for not modified.
MutFailedFetchStatus(resp) ==
    IF resp.status = 304 \/ resp.content = "" THEN READY ELSE ERROR

\* The status reported on the failed-or-empty path.
FailedFetchStatus(resp) == IF resp.status = 304 THEN READY ELSE ERROR

\* IsSameContent that compares the hash with the etag.
MutIsSameContent(a, resp) ==
    (~a.is_refresh) /\ (compute_hash_base64(resp.content) = a.etag)

\* The condition of the unchanged-content path.
IsSameContent(a, resp) ==
    (~a.is_refresh) /\ (compute_hash_base64(resp.content) = a.content_hash_base64)

\* _update_feed_info(feed_id, response, status, warnings)
_update_feed_info(resp, status, warnings) ==
    SinkEvent("update_feed_info",
              [status |-> status, response_status |-> resp.status,
               warnings |-> warnings])

\* The call of sync_feed: the arguments, what the DNS service, the proxy helper
\* and the reader answer, and the proxy decision (lines 144-157).
SyncFeedCall ==
    /\ pc = "idle"
    /\ \E arg_use_proxy, is_refresh, resolved, tagged, has_proxy \in BOOLEAN,
          hash \in HashArgs, checksum \in ChecksumArgs, tokens \in TokenArgs :
        \E drop \in IF has_proxy /\ arg_use_proxy /\ ~resolved
                    THEN BOOLEAN ELSE {FALSE} :
            /\ args' = [op |-> "sync_feed", use_proxy |-> arg_use_proxy,
                        checksum_data |-> checksum, content_hash_base64 |-> hash,
                        etag |-> tokens.etag, last_modified |-> tokens.last_modified,
                        is_refresh |-> is_refresh]
            /\ env' = [resolved |-> resolved, tagged |-> tagged,
                       has_proxy |-> has_proxy, drop |-> drop]
            /\ use_proxy' = ProxyDecision(arg_use_proxy, resolved, has_proxy,
                                          drop, tagged)
    /\ pc' = "sync_read"
    /\ log' = <<>>
    /\ UNCHANGED storyVars
    /\ UNCHANGED <<response, need_proxy, proxy_response, found, messages>>
    /\ UNCHANGED dnsVars

\* response = reader.read(url, **params, use_proxy=use_proxy) and
\* need_proxy = is_need_proxy(response.status) (lines 158-160).
SyncFeedRead ==
    /\ pc = "sync_read"
    /\ \E resp \in FeedResponses(use_proxy) :
        /\ response' = resp
        /\ need_proxy' = is_need_proxy(resp.status)
        /\ log' = Append(log, ReadEvent(use_proxy, FetchParams(args)))
    /\ pc' = "sync_retry"
    /\ UNCHANGED storyVars
    /\ UNCHANGED <<args, env, use_proxy, proxy_response, found, messages>>
    /\ UNCHANGED dnsVars

\* The second read, by proxy, when the first response asks for it (lines 160-168).
SyncFeedProxyRead ==
    /\ pc = "sync_retry"
    /\ NeedProxyRetry(use_proxy, env.has_proxy, need_proxy)
    /\ \E resp \in FeedResponses(TRUE) :
        /\ proxy_response' = resp
        /\ response' = RetainedResponse(response, resp)
        /\ log' = Append(log, ReadEvent(TRUE, FetchParams(args)))
    /\ pc' = "sync_check"
    /\ UNCHANGED storyVars
    /\ UNCHANGED <<args, env, use_proxy, need_proxy, found, messages>>
    /\ UNCHANGED dnsVars

SyncFeedNoProxyRead ==
    /\ pc = "sync_retry"
    /\ ~NeedProxyRetry(use_proxy, env.has_proxy, need_proxy)
    /\ pc' = "sync_check"
    /\ UNCHANGED storyVars
    /\ UNCHANGED <<args, env, use_proxy, response, need_proxy, proxy_response, found,
                   messages, log>>
    /\ UNCHANGED dnsVars

\* The failed-or-empty path (lines 169-172).
SyncFeedFailed ==
    /\ pc = "sync_check"
    /\ IsFailedFetch(response)
    /\ log' = Append(log, _update_feed_info(response, FailedFetchStatus(response), None))
    /\ pc' = "done"
    /\ UNCHANGED storyVars
    /\ UNCHANGED <<args, env, use_proxy, response, need_proxy, proxy_response, found, messages>>
    /\ UNCHANGED dnsVars

\* SyncFeedNotModified that returns without a report.
MutSyncFeedNotModified ==
    /\ pc = "sync_check"
    /\ ~IsFailedFetch(response)
    /\ IsSameContent(args, response)
    /\ pc' = "done"
    /\ UNCHANGED storyVars
    /\ UNCHANGED <<args, env, use_proxy, response, need_proxy, proxy_response,
                   found, messages, log>>
    /\ UNCHANGED dnsVars

\* The unchanged-content path (lines 173-179).
SyncFeedNotModified ==
    /\ pc = "sync_check"
    /\ ~IsFailedFetch(response)
    /\ IsSameContent(args, response)
    /\ log' = Append(log, _update_feed_info(response, None, None))
    /\ pc' = "done"
    /\ UNCHANGED storyVars
    /\ UNCHANGED <<args, env, use_proxy, response, need_proxy, proxy_response, found, messages>>
    /\ UNCHANGED dnsVars

\* SyncFeedRawParseError that reports the error without its message.
MutSyncFeedRawParseError ==
    /\ pc = "sync_check"
    /\ ~IsFailedFetch(response)
    /\ ~IsSameContent(args, response)
    /\ log' = log \o <<StepEvent("raw_parse"),
                       _update_feed_info(response, ERROR, None)>>
    /\ pc' = "done"
    /\ UNCHANGED storyVars
    /\ UNCHANGED <<args, env, use_proxy, response, need_proxy, proxy_response, found, messages>>
    /\ UNCHANGED dnsVars

\* RawFeedParser().parse(response) raises FeedParserError (lines 181-191).
SyncFeedRawParseError ==
    /\ pc = "sync_check"
    /\ ~IsFailedFetch(response)
    /\ ~IsSameContent(args, response)
    /\ log' = log \o <<StepEvent("raw_parse"),
                       _update_feed_info(response, ERROR, "raw parser error")>>
    /\ pc' = "done"
    /\ UNCHANGED storyVars
    /\ UNCHANGED <<args, env, use_proxy, response, need_proxy, proxy_response, found, messages>>
    /\ UNCHANGED dnsVars

\* RawFeedParser().parse(response) returns a raw result, _parse_found
\* normalises it and the outcome is reported (lines 181-215).
SyncFeedParse ==
    /\ pc = "sync_check"
    /\ ~IsFailedFetch(response)
    /\ ~IsSameContent(args, response)
    /\ \E raw_result \in RawFeedResults(MaxFeedEntries) :
        LET fnd == [present |-> TRUE, response |-> response,
                    raw_result |-> raw_result]
            parsed == _parse_found(fnd, args.checksum_data, args.is_refresh)
        IN  /\ found' = fnd
            /\ log' = log \o <<StepEvent("raw_parse")>> \o ParseFoundEvents(parsed) \o
                  (IF parsed.exc # None
                   THEN <<_update_feed_info(response, ERROR, parsed.message)>>
                   ELSE <<SinkEvent("update_feed",
                                    [feed |-> parsed.feed,
                                     is_refresh |-> args.is_refresh])>>)
    /\ pc' = "done"
    /\ UNCHANGED storyVars
    /\ UNCHANGED <<args, env, use_proxy, response, need_proxy, proxy_response, messages>>
    /\ UNCHANGED dnsVars

-----------------------------------------------------------------------------
(* find_feed *)

\* What the finder can return: nothing, or a (response, raw_result) pair of a
\* document it could read and raw-parse.
FoundPairs(proxy) ==
    {[present |-> TRUE,
      response |-> [status |-> 200, ok |-> TRUE, content |-> "A", use_proxy |-> proxy],
      raw_result |-> r] : r \in RawFeedResults(MaxFeedEntries)}

\* The messages the finder hands to message_handler during discovery.
FinderMessages == {[i \in 1..n |-> "finder message"] : n \in 0..MaxMessages}

\* MessagesAfterParse with the failure put before the messages of discovery.
MutMessagesAfterParse(msgs, parsed) ==
    IF parsed.exc # None
    THEN <<"invalid feed: " \o parsed.message>> \o msgs
    ELSE msgs

\* The messages of the terminal result: those of discovery, then the failure.
MessagesAfterParse(msgs, parsed) ==
    IF parsed.exc # None
    THEN Append(msgs, "invalid feed: " \o parsed.message)
    ELSE msgs

\* The progress report that opens find_feed (lines 98-105).
FindFeedCall ==
    /\ pc = "idle"
    /\ \E tagged \in BOOLEAN :
        /\ args' = [op |-> "find_feed"]
        /\ env' = [NoEnv EXCEPT !.tagged = tagged]
    /\ log' = <<SinkEvent("update_feed_creation_status", [status |-> UPDATING])>>
    /\ messages' = <<>>
    /\ pc' = "find_discover"
    /\ UNCHANGED storyVars
    /\ UNCHANGED <<use_proxy, response, need_proxy, proxy_response, found>>
    /\ UNCHANGED dnsVars

\* finder.find(use_proxy=is_use_proxy_url(url)) (lines 113-119).
FindFeedDiscover ==
    /\ pc = "find_discover"
    /\ use_proxy' = env.tagged
    /\ \E fnd \in {NoFound} \cup FoundPairs(env.tagged), msgs \in FinderMessages :
        /\ found' = fnd
        /\ messages' = messages \o msgs
    /\ log' = Append(log, [kind |-> "find", use_proxy |-> env.tagged])
    /\ pc' = "find_save"
    /\ UNCHANGED storyVars
    /\ UNCHANGED <<args, env, response, need_proxy, proxy_response>>
    /\ UNCHANGED dnsVars

\* Nothing was found: the terminal result has no feed (lines 120-131).
FindFeedSaveNotFound ==
    /\ pc = "find_save"
    /\ ~found.present
    /\ log' = Append(log, SinkEvent("save_feed_creation_result",
                                    [messages |-> messages, feed |-> NoFeed]))
    /\ pc' = "done"
    /\ UNCHANGED storyVars
    /\ UNCHANGED <<args, env, use_proxy, response, need_proxy, proxy_response, found, messages>>
    /\ UNCHANGED dnsVars

\* FindFeedSaveFound that returns without the terminal result when the
\* normalisation fails.
MutFindFeedSaveFound ==
    /\ pc = "find_save"
    /\ found.present
    /\ LET parsed == _parse_found(found, <<>>, FALSE)
       IN  log' = log \o ParseFoundEvents(parsed) \o
                  (IF parsed.exc # None THEN <<>>
                   ELSE <<SinkEvent("save_feed_creation_result",
                                    [messages |-> messages, feed |-> parsed.feed])>>)
    /\ pc' = "done"
    /\ UNCHANGED storyVars
    /\ UNCHANGED <<args, env, use_proxy, response, need_proxy, proxy_response,
                   found, messages>>
    /\ UNCHANGED dnsVars

\* A document was found: it is normalised, a failure of the normalisation is
\* turned into a message, and the terminal result is reported (lines 120-131).
FindFeedSaveFound ==
    /\ pc = "find_save"
    /\ found.present
    /\ LET parsed == _parse_found(found, <<>>, FALSE)
           msgs == MessagesAfterParse(messages, parsed)
       IN  /\ messages' = msgs
           /\ log' = log \o ParseFoundEvents(parsed) \o
                     <<SinkEvent("save_feed_creation_result",
                                 [messages |-> msgs, feed |-> parsed.feed])>>
    /\ pc' = "done"
    /\ UNCHANGED storyVars
    /\ UNCHANGED <<args, env, use_proxy, response, need_proxy, proxy_response, found>>
    /\ UNCHANGED dnsVars

-----------------------------------------------------------------------------
(* _parse_found called on its own *)

\* The call: a (response, raw_result) pair, a checksum and the refresh flag.
ParseFoundCall ==
    /\ pc = "idle"
    /\ \E raw_result \in RawFeedResults(MaxEntries), checksum \in ChecksumArgs,
          is_refresh \in BOOLEAN :
        /\ args' = [op |-> "_parse_found", checksum_data |-> checksum,
                    is_refresh |-> is_refresh]
        /\ found' = [present |-> TRUE,
                     response |-> [status |-> 200, ok |-> TRUE, content |-> "A",
                                   use_proxy |-> FALSE],
                     raw_result |-> raw_result]
    /\ log' = <<>>
    /\ pc' = "parse_found"
    /\ UNCHANGED storyVars
    /\ UNCHANGED <<env, use_proxy, response, need_proxy, proxy_response, messages>>
    /\ UNCHANGED dnsVars

\* The return of the validated feed, or the exception raised (lines 397-442).
ParseFoundReturn ==
    /\ pc = "parse_found"
    /\ LET parsed == _parse_found(found, args.checksum_data, args.is_refresh)
       IN  log' = log \o ParseFoundEvents(parsed) \o
                  <<[kind |-> "return", exc |-> parsed.exc, feed |-> parsed.feed]>>
    /\ pc' = "done"
    /\ UNCHANGED storyVars
    /\ UNCHANGED <<args, env, use_proxy, response, need_proxy, proxy_response,
                   found, messages>>
    /\ UNCHANGED dnsVars

-----------------------------------------------------------------------------
(* fetch_story *)

\* The loop of _fetch_story with one more iteration.
Mut_FETCH_STORY_HOPS == 2 + 1

\* The loop of _fetch_story runs range(2).
_FETCH_STORY_HOPS == 2

\* The url asked for, and the urls a page can redirect to.
StoryUrl == "u0"
RedirectUrls == {"u1", "u2"}

\* A story page is a sequence of tokens: "t" is text, "x" a byte sequence the
\* response encoding cannot decode, ">u1" and ">u2" a client-side redirect
\* hint to u1 and to u2.
BodyTokens == {"t", "x", ">u1", ">u2"}
HintTarget(token) == IF token = ">u1" THEN "u1" ELSE "u2"

StoryBodies == UNION {[1..n -> BodyTokens] : n \in 0..MaxBody}

\* What the transport can answer to a read of a story page; url is the final
\* url of the response, None when it has none.  Missing stands for a read that
\* yields no response object.
StoryResponses(proxy) ==
    [missing : {FALSE}, status : {200, 404}, ok : BOOLEAN, content : StoryBodies,
     url : {None} \cup RedirectUrls, use_proxy : {proxy}]

MissingResponse ==
    [missing |-> TRUE, status |-> 0, ok |-> FALSE, content |-> <<>>, url |-> None,
     use_proxy |-> FALSE]

\* response.content.decode(response.encoding): raises UnicodeError on a body
\* with an undecodable token; with errors='ignore' such tokens are left out.
CanDecode(body) == \A i \in 1..Len(body) : body[i] # "x"
DecodeIgnore(body) == SelectSeq(body, LAMBDA token : token # "x")
Decode(body) == IF CanDecode(body) THEN body ELSE DecodeIgnore(body)

\* get_html_redirect_url(content): the target of the first redirect hint of
\* the page, None when it has none.
get_html_redirect_url(text) ==
    LET hints == SelectSeq(text, LAMBDA token : token \in {">u1", ">u2"})
    IN  IF hints = <<>> THEN None ELSE HintTarget(hints[1])

\* The url after a read: the response's url when it has one (lines 223-224).
UrlAfterRead(current, resp) ==
    IF (~resp.missing) /\ resp.url # None THEN resp.url ELSE current

\* The condition of the early return without content (line 228).
IsUnusable(resp) == ~((~resp.missing) /\ resp.ok /\ resp.content # <<>>)

\* The condition of the return with content (line 236).
IsFinalPage(html_redirect, current) ==
    (html_redirect = None) \/ (html_redirect = current)

\* What the sink answers to update_story.
AcceptAnswers == {None, "accept"}

\* What the content extractor makes of a page: blank is whether text.strip()
\* is empty, num_sentences the sentences of the text content, fulltext the
\* answer of is_fulltext_content, summary_empty whether the summary is empty.
Extractions ==
    [blank : BOOLEAN, num_sentences : 0..MaxSentences, fulltext : BOOLEAN,
     summary_empty : BOOLEAN]

\* num_sub_sentences as the caller supplies it: None (not given), or a count.
NoHint == [given |-> FALSE, count |-> 0]
HintArgs == {NoHint} \cup {[given |-> TRUE, count |-> n] : n \in 0..MaxSentences}

\* The full-text rejection with the equal sentence count let through.
MutIsRejectedFulltext(num_sub_sentences, fulltext, num_sentences) ==
    /\ num_sub_sentences.given
    /\ ~fulltext
    /\ num_sentences < num_sub_sentences.count

\* The full-text rejection of _process_story_webpage (lines 339-346).
IsRejectedFulltext(num_sub_sentences, fulltext, num_sentences) ==
    /\ num_sub_sentences.given
    /\ ~fulltext
    /\ num_sentences <= num_sub_sentences.count

\* DEFAULT_RESULT with the url the loop of _fetch_story returned.
MutDefaultResult(a, resp) ==
    [keys |-> {"feed_id", "offset", "url", "response_status", "use_proxy"},
     url |-> url, response_status |-> resp.status, use_proxy |-> resp.use_proxy]

\* DEFAULT_RESULT of fetch_story (lines 284-290).
DefaultResult(a, resp) ==
    [keys |-> {"feed_id", "offset", "url", "response_status", "use_proxy"},
     url |-> a.url, response_status |-> resp.status, use_proxy |-> resp.use_proxy]

\* What _process_story_webpage made of the page it was handed.
ExtractEvent(ex) ==
    [kind |-> "extract", blank |-> ex.blank, num_sentences |-> ex.num_sentences,
     fulltext |-> ex.fulltext, summary_empty |-> ex.summary_empty]

\* The call of fetch_story and of _async_fetch_story_impl (lines 247-281).
FetchStoryCall ==
    /\ pc = "idle"
    /\ \E arg_use_proxy, resolved, has_proxy \in BOOLEAN, hint \in HintArgs :
        /\ args' = [op |-> "fetch_story", url |-> StoryUrl,
                    use_proxy |-> arg_use_proxy, num_sub_sentences |-> hint]
        /\ env' = [NoEnv EXCEPT !.resolved = resolved, !.has_proxy = has_proxy]
        /\ use_proxy' = ((IF resolved THEN FALSE ELSE arg_use_proxy) /\ has_proxy)
    /\ url' = StoryUrl
    /\ content' = NoContent
    /\ iter' = 0
    /\ response' = MissingResponse
    /\ log' = <<>>
    /\ pc' = "story_read"
    /\ UNCHANGED <<need_proxy, proxy_response, found, messages, result>>
    /\ UNCHANGED dnsVars

\* One iteration of the loop of _fetch_story (lines 221-245).
StoryRead ==
    /\ pc = "story_read"
    /\ iter < _FETCH_STORY_HOPS
    /\ \E resp \in StoryResponses(use_proxy) \cup {MissingResponse} :
        LET current == UrlAfterRead(url, resp)
            text == Decode(resp.content)
            html_redirect == get_html_redirect_url(text)
        IN  /\ response' = resp
            /\ log' = Append(log, [kind |-> "read", url |-> url,
                                   use_proxy |-> use_proxy])
            /\ IF resp.missing
               THEN \* response.status of no response: AttributeError (line 226)
                    /\ pc' = "raised"
                    /\ UNCHANGED <<url, content, iter>>
               ELSE IF IsUnusable(resp)
               THEN /\ pc' = "story_fetched"
                    /\ url' = current
                    /\ content' = NoContent
                    /\ iter' = iter
               ELSE IF IsFinalPage(html_redirect, current)
               THEN /\ pc' = "story_fetched"
                    /\ url' = current
                    /\ content' = [none |-> FALSE, text |-> text]
                    /\ iter' = iter
               ELSE /\ url' = html_redirect
                    /\ content' = [none |-> FALSE, text |-> text]
                    /\ iter' = iter + 1
                    /\ pc' = IF iter + 1 < _FETCH_STORY_HOPS
                             THEN "story_read" ELSE "story_fetched"
    /\ UNCHANGED <<args, env, use_proxy, need_proxy, proxy_response, found,
                   messages, result>>
    /\ UNCHANGED dnsVars

\* fetch_story returns DEFAULT_RESULT: nothing usable was fetched (lines 283-293).
FetchStoryNoContent ==
    /\ pc = "story_fetched"
    /\ content.none \/ content.text = <<>>
    /\ result' = DefaultResult(args, response)
    /\ pc' = "done"
    /\ UNCHANGED <<args, env, use_proxy, response, need_proxy, proxy_response,
                   found, messages, log, url, content, iter>>
    /\ UNCHANGED dnsVars

\* fetch_story hands the page to _process_story_webpage (lines 294-360).  The
\* shrinking of an oversized page changes the text handed over, and with it
\* only what the extractor makes of it.
FetchStoryProcess ==
    /\ pc = "story_fetched"
    /\ ~(content.none \/ content.text = <<>>)
    /\ \E ex \in Extractions, accept \in AcceptAnswers :
        IF \/ ex.blank
           \/ IsRejectedFulltext(args.num_sub_sentences, ex.fulltext, ex.num_sentences)
           \/ ex.summary_empty
        THEN /\ result' = DefaultResult(args, response)
             /\ log' = Append(log, ExtractEvent(ex))
        ELSE /\ result' =
                 [DefaultResult(args, response) EXCEPT
                     !.keys = @ \cup {"content", "summary", "sentence_count", "accept"}]
                 @@ [sentence_count |-> ex.num_sentences, accept |-> accept]
             /\ log' = log \o <<ExtractEvent(ex),
                             SinkEvent("update_story",
                                 [url |-> args.url,
                                  sentence_count |-> ex.num_sentences])>>
    /\ pc' = "done"
    /\ UNCHANGED <<args, env, use_proxy, response, need_proxy, proxy_response,
                   found, messages, url, content, iter>>
    /\ UNCHANGED dnsVars

\* The exception leaves fetch_story.
FetchStoryRaise ==
    /\ pc = "raised"
    /\ pc' = "done"
    /\ result' = [keys |-> {}, exc |-> "AttributeError"]
    /\ UNCHANGED <<args, env, use_proxy, response, need_proxy, proxy_response,
                   found, messages, log, url, content, iter>>
    /\ UNCHANGED dnsVars

-----------------------------------------------------------------------------
(* The DNS refresh thread *)

\* time.sleep(10) before the loop and time.sleep(4 * 60 * 60) in it.
WarmupSleep == 10
RefreshSleep == 4 * 60 * 60

\* How a call of DNS_SERVICE.refresh() can end: it returns, it raises an
\* Exception, or it raises a BaseException that is no Exception (SystemExit,
\* KeyboardInterrupt, GeneratorExit).
RefreshOutcomes == {"returned", "Exception", "BaseException"}

SleepEvent(seconds) == [kind |-> "sleep", seconds |-> seconds]
RefreshEvent(outcome) == [kind |-> "refresh", outcome |-> outcome]

\* dns_log with one more step, the oldest dropped once MaxDnsLog are kept.
Logged(event) ==
    LET all == Append(dns_log, event)
    IN  IF Len(all) <= MaxDnsLog THEN all
        ELSE SubSeq(all, Len(all) - MaxDnsLog + 1, Len(all))

\* start_dns_refresh_thread (lines 373-375).
StartDnsRefreshThread ==
    /\ dns_pc = "not_started"
    /\ dns_pc' = "warmup"
    /\ dns_log' = <<>>
    /\ UNCHANGED <<pc, args, env, use_proxy, response, need_proxy, proxy_response,
                   found, messages, log, storyVars>>

\* The warm-up sleep (line 365).
DnsWarmup ==
    /\ dns_pc = "warmup"
    /\ dns_log' = Logged(SleepEvent(WarmupSleep))
    /\ dns_pc' = "refresh"
    /\ UNCHANGED <<pc, args, env, use_proxy, response, need_proxy, proxy_response,
                   found, messages, log, storyVars>>

\* One refresh attempt (lines 367-370).  except Exception catches and logs an
\* Exception and the loop goes on to its sleep; any other exception leaves
\* the loop and _dns_refresh_main, and the thread ends.
DnsRefresh ==
    /\ dns_pc = "refresh"
    /\ \E outcome \in RefreshOutcomes :
        /\ dns_log' = Logged(RefreshEvent(outcome))
        /\ dns_pc' = IF outcome = "BaseException" THEN "exited" ELSE "sleep"
    /\ UNCHANGED <<pc, args, env, use_proxy, response, need_proxy, proxy_response,
                   found, messages, log, storyVars>>

\* The sleep that ends an iteration of the loop (line 371).
DnsSleep ==
    /\ dns_pc = "sleep"
    /\ dns_log' = Logged(SleepEvent(RefreshSleep))
    /\ dns_pc' = "refresh"
    /\ UNCHANGED <<pc, args, env, use_proxy, response, need_proxy, proxy_response,
                   found, messages, log, storyVars>>

-----------------------------------------------------------------------------

\* The invocation returns; the next one starts from scratch.
Return ==
    /\ pc = "done"
    /\ pc' = "idle"
    /\ args' = NoArgs
    /\ env' = NoEnv
    /\ use_proxy' = FALSE
    /\ response' = NoResponse
    /\ need_proxy' = FALSE
    /\ proxy_response' = NoResponse
    /\ found' = NoFound
    /\ messages' = <<>>
    /\ log' = <<>>
    /\ url' = None
    /\ content' = NoContent
    /\ iter' = 0
    /\ result' = NoResult
    /\ UNCHANGED dnsVars

Init ==
    /\ pc = "idle"
    /\ args = NoArgs
    /\ env = NoEnv
    /\ use_proxy = FALSE
    /\ response = NoResponse
    /\ need_proxy = FALSE
    /\ proxy_response = NoResponse
    /\ found = NoFound
    /\ messages = <<>>
    /\ log = <<>>
    /\ url = None
    /\ content = NoContent
    /\ iter = 0
    /\ result = NoResult
    /\ dns_pc = "not_started"
    /\ dns_log = <<>>

SyncNext ==
    \/ SyncFeedCall
    \/ SyncFeedRead
    \/ SyncFeedProxyRead
    \/ SyncFeedNoProxyRead
    \/ SyncFeedFailed
    \/ SyncFeedNotModified
    \/ SyncFeedRawParseError
    \/ SyncFeedParse

FindNext ==
    \/ FindFeedCall
    \/ FindFeedDiscover
    \/ FindFeedSaveNotFound
    \/ FindFeedSaveFound

ParseNext ==
    \/ ParseFoundCall
    \/ ParseFoundReturn

StoryNext ==
    \/ FetchStoryCall
    \/ StoryRead
    \/ FetchStoryNoContent
    \/ FetchStoryProcess
    \/ FetchStoryRaise

DnsNext ==
    \/ StartDnsRefreshThread
    \/ DnsWarmup
    \/ DnsRefresh
    \/ DnsSleep

Next == SyncNext \/ FindNext \/ ParseNext \/ StoryNext \/ Return \/ DnsNext

\* The worker service as a whole.
Spec == Init /\ [][Next]_vars

\* fetch_story alone.
StorySpec == Init /\ [][StoryNext \/ Return]_vars

\* sync_feed alone, find_feed alone, and the feed pipeline as a whole.
SyncSpec == Init /\ [][SyncNext \/ Return]_vars

FindSpec == Init /\ [][FindNext \/ Return]_vars

FeedSpec == Init /\ [][SyncNext \/ FindNext \/ ParseNext \/ Return]_vars

\* The DNS refresh thread alone.  While it lives the thread is scheduled again
\* and again, time.sleep returns and a call of DNS_SERVICE.refresh() ends.
DnsSpec ==
    Init /\ [][DnsNext]_vars /\ WF_vars(DnsWarmup \/ DnsRefresh \/ DnsSleep)

-----------------------------------------------------------------------------
(* Properties *)

LastEvent == log[Len(log)]

IsSink(e, call) == e.kind = "sink" /\ e.call = call

\* The storys handed to validate_feed in this invocation.
ValidateInput ==
    LET idx == CHOOSE i \in 1..Len(log) : log[i].kind = "validate_feed"
    IN  log[idx].storys

\* The events of the log that carry a normalised feed.
CarriesFeed(e) ==
    \/ (e.kind = "sink" /\ e.call \in {"update_feed", "save_feed_creation_result"}
        /\ e.payload.feed.present)
    \/ (e.kind = "return" /\ e.feed.present)

FeedOf(e) == IF e.kind = "sink" THEN e.payload.feed ELSE e.feed

NonIncreasing(storys) ==
    \A i, j \in 1..Len(storys) :
        i < j => storys[i].dt_published >= storys[j].dt_published

\* The place of the story of fingerprint ident in storys.
PlaceOf(ident, storys) == CHOOSE k \in 1..Len(storys) : storys[k].ident = ident

\* out holds storys of inp only, each once, in the order they have in inp.
KeepsOrderOf(out, inp) ==
    /\ \A i \in 1..Len(out) : \E k \in 1..Len(inp) : inp[k] = out[i]
    /\ \A i, j \in 1..Len(out) :
        i < j => PlaceOf(out[i].ident, inp) < PlaceOf(out[j].ident, inp)

\* C1: a find_feed invocation first reports update_feed_creation_status with
\* status UPDATING, before the finder does any network I/O, and when it returns
\* it has made exactly one more Result Sink call, save_feed_creation_result, as
\* its last step: two sink calls in all, whether nothing was found, a valid
\* feed was found, or the found document failed parsing or validation.
C1_FindFeedTwoSinkCalls ==
    args.op = "find_feed" =>
        /\ Len(log) >= 1
        /\ log[1] = SinkEvent("update_feed_creation_status", [status |-> UPDATING])
        /\ \A i \in 1..Len(log) :
            log[i].kind \in {"find", "feed_parse", "validate_feed"} => i > 1
        /\ pc # "done" => Len(SinkCalls) = 1
        /\ pc = "done" =>
            /\ Len(SinkCalls) = 2
            /\ SinkCalls[2].call = "save_feed_creation_result"
            /\ LastEvent = SinkCalls[2]
            /\ Count("find") = 1

\* C1 witness: find_feed returned after the found document failed normalisation.
C1_Witness ==
    /\ args.op = "find_feed" /\ pc = "done"
    /\ found.present /\ found.raw_result.fate = "Invalid"
    /\ Len(SinkCalls) = 2
    /\ ~SinkCalls[2].payload.feed.present

\* C2: a sync_feed invocation that returns has made exactly one Result Sink
\* call, and none before its last step: update_feed_info on the failed or empty
\* fetch, unchanged content hash, parser failure and feed validation failure
\* paths, update_feed on every other path.
C2_SyncFeedOneSinkCall ==
    args.op = "sync_feed" =>
        /\ pc # "done" => Len(SinkCalls) = 0
        /\ pc = "done" =>
            /\ Len(SinkCalls) = 1
            /\ LastEvent = SinkCalls[1]
            /\ LET failed == (~response.ok) \/ response.content = ""
                   same == (~args.is_refresh) /\
                       compute_hash_base64(response.content) = args.content_hash_base64
                   rejected == (~found.present) \/ found.raw_result.fate # "ok"
               IN  SinkCalls[1].call =
                       IF failed \/ same \/ rejected
                       THEN "update_feed_info" ELSE "update_feed"

\* C2 witness: sync_feed returned on the unchanged-content path.
C2_Witness ==
    /\ args.op = "sync_feed" /\ pc = "done"
    /\ response.ok /\ response.content # ""
    /\ ~args.is_refresh
    /\ compute_hash_base64(response.content) = args.content_hash_base64
    /\ Len(SinkCalls) = 1

\* C3: when the response retained by sync_feed is not ok or has no content,
\* the one report is update_feed_info with status READY if the response status
\* is 304 and ERROR otherwise, it carries the response status, and nothing was
\* compared, parsed or reported through update_feed.
C3_FailedFetchStatus ==
    (args.op = "sync_feed" /\ pc = "done"
        /\ ((~response.ok) \/ response.content = "")) =>
        /\ Len(SinkCalls) = 1
        /\ SinkCalls[1].call = "update_feed_info"
        /\ SinkCalls[1].payload.status \in {READY, ERROR}
        /\ (SinkCalls[1].payload.status = READY) <=> (response.status = 304)
        /\ SinkCalls[1].payload.response_status = response.status
        /\ Count("raw_parse") = 0
        /\ Count("feed_parse") = 0
        /\ ~found.present

\* C3 witness: after a proxy read, the retained response is an empty 304 and
\* READY was reported.
C3_Witness ==
    /\ args.op = "sync_feed" /\ pc = "done"
    /\ Len(Reads) = 2
    /\ response.status = 304 /\ response.content = ""
    /\ SinkCalls[1].payload.status = READY

\* C4: without forced refresh, a successful fetch whose content hash equals
\* the caller's content_hash_base64 is neither raw-parsed nor diffed, never
\* reaches update_feed, and is reported by update_feed_info alone with no
\* status; and the hash a full update reports is the hash of the content it
\* fetched, so a second sync of the same content with that hash takes this path.
C4_UnchangedContent ==
    (args.op = "sync_feed" /\ pc = "done") =>
        /\ (response.ok /\ response.content # "" /\ ~args.is_refresh
              /\ compute_hash_base64(response.content) = args.content_hash_base64) =>
            /\ Count("raw_parse") = 0
            /\ Count("feed_parse") = 0
            /\ SinkCalls = <<SinkEvent("update_feed_info",
                                       [status |-> None,
                                        response_status |-> response.status,
                                        warnings |-> None])>>
        /\ IsSink(LastEvent, "update_feed") =>
            LastEvent.payload.feed.content_hash_base64 =
                compute_hash_base64(response.content)

\* C4 witness: an unchanged document was reported as a metadata update.
C4_Witness ==
    /\ args.op = "sync_feed" /\ pc = "done"
    /\ response.ok /\ response.content = "A" /\ ~args.is_refresh
    /\ args.content_hash_base64 = compute_hash_base64("A")
    /\ IsSink(LastEvent, "update_feed_info")
    /\ LastEvent.payload.status = None

\* C5 as stated: for a url the DNS service reports resolved, every read of
\* sync_feed has use_proxy = false.
C5_Original ==
    (args.op = "sync_feed" /\ env.resolved) =>
        \A i \in 1..Len(Reads) : ~Reads[i].use_proxy

\* C5 amended: for a resolved url that is not proxy-tagged, the first read of
\* sync_feed has use_proxy = false whatever the caller's flag, the random drop
\* and the reader's proxy; a resolved proxy-tagged url is first read by proxy,
\* and a second read is always by proxy.
C5_ResolvedFirstRead ==
    (args.op = "sync_feed" /\ env.resolved /\ Len(Reads) >= 1) =>
        /\ Reads[1].use_proxy <=> env.tagged
        /\ Len(Reads) >= 2 => Reads[2].use_proxy

\* C5 witness: a resolved url the caller asked to read by proxy, read directly
\* and then read again by proxy.
C5_Witness ==
    /\ args.op = "sync_feed" /\ env.resolved /\ ~env.tagged
    /\ args.use_proxy /\ env.has_proxy
    /\ Len(Reads) = 2
    /\ ~Reads[1].use_proxy /\ Reads[2].use_proxy

\* C6: for a proxy-tagged url the first read of sync_feed is by proxy, whatever
\* the caller's flag, the DNS state, the random drop and the reader's proxy,
\* and no second read follows.
C6_TaggedFirstRead ==
    (args.op = "sync_feed" /\ env.tagged) =>
        /\ Len(Reads) <= 1
        /\ Len(Reads) = 1 => Reads[1].use_proxy
        /\ pc \in {"sync_retry", "sync_check", "done"} => Len(Reads) = 1

\* C6 witness: a tagged, resolved url of a reader without proxy, whose first
\* response asked for the proxy, was read once, by proxy.
C6_Witness ==
    /\ args.op = "sync_feed" /\ pc = "done"
    /\ env.tagged /\ env.resolved /\ ~env.has_proxy /\ ~args.use_proxy
    /\ need_proxy
    /\ Len(Reads) = 1 /\ Reads[1].use_proxy

\* The state part of C7.
C7_ReadsInvariant ==
    args.op = "sync_feed" =>
        /\ Len(Reads) <= 2
        /\ pc = "sync_retry" =>
            /\ Len(Reads) = 1
            /\ need_proxy <=> (response.status \in NeedProxyStatusSet)
        /\ pc \in {"sync_check", "done"} =>
            (Len(Reads) = 2 <=>
                ((~Reads[1].use_proxy) /\ env.has_proxy /\ need_proxy))
        /\ Len(Reads) = 2 =>
            /\ Reads[2].use_proxy
            /\ Reads[2].params = Reads[1].params

\* The step part of C7: what the second read leaves in response.
C7_RetainStep ==
    (pc = "sync_retry" /\ Len(Reads') = 2) =>
        response' = IF proxy_response'.ok THEN proxy_response' ELSE response

\* C7: sync_feed reads at most twice; it reads a second time exactly when the
\* first read was not by proxy, the reader has a proxy and the first response
\* status is in the need-proxy set; the second read is by proxy with the same
\* conditional tokens; and the response retained is the proxy response if that
\* one is ok, the first response otherwise.
C7_ProxyRetryOnce == [](C7_ReadsInvariant) /\ [][C7_RetainStep]_vars

\* C7 witness: a second read whose response was not ok, so that the first
\* response was retained.
C7_Witness ==
    /\ args.op = "sync_feed" /\ pc = "sync_check"
    /\ Len(Reads) = 2
    /\ ~proxy_response.ok
    /\ response # proxy_response

\* C8: the storys of every feed reported by update_feed or
\* save_feed_creation_result, or returned by _parse_found, are non-increasing
\* in dt_published whatever the arrival order of the raw entries, and are in
\* the order validate_feed received them.
C8_StorysNewestFirst ==
    \A i \in 1..Len(log) :
        CarriesFeed(log[i]) =>
            /\ NonIncreasing(FeedOf(log[i]).storys)
            /\ KeepsOrderOf(FeedOf(log[i]).storys, ValidateInput)

\* C8 witness: a document whose two entries arrived oldest first was reported
\* by update_feed with both storys.
C8_Witness ==
    /\ args.op = "sync_feed" /\ pc = "done"
    /\ IsSink(LastEvent, "update_feed")
    /\ Len(found.raw_result.storys) = 2
    /\ found.raw_result.storys[1].dt_published < found.raw_result.storys[2].dt_published
    /\ Len(LastEvent.payload.feed.storys) = 2

\* C9: when the feed schema accepts the feed, validate_feed returns exactly
\* the storys that pass the story schema, in the order it received them, and
\* sync_feed ends with update_feed carrying them, not with an ERROR report.
C9_StoryFaultIsolation ==
    (pc = "done" /\ args.op \in {"sync_feed", "_parse_found"}
        /\ found.present /\ found.raw_result.fate = "ok") =>
        /\ IF args.op = "sync_feed"
           THEN IsSink(LastEvent, "update_feed")
           ELSE LastEvent.kind = "return" /\ LastEvent.exc = None
        /\ FeedOf(LastEvent).storys =
               SelectSeq(ValidateInput, LAMBDA story : story.schema_ok)

\* C9 witness: sync_feed reported the one valid story of a document of two
\* storys whose newest one the story schema rejects.
C9_Witness ==
    /\ args.op = "sync_feed" /\ pc = "done"
    /\ IsSink(LastEvent, "update_feed")
    /\ Len(ValidateInput) = 2
    /\ ~ValidateInput[1].schema_ok /\ ValidateInput[2].schema_ok
    /\ LastEvent.payload.feed.storys = <<ValidateInput[2]>>

\* The state part of C10.
C10_ReadsInvariant ==
    args.op = "fetch_story" =>
        /\ Len(Reads) <= 2
        /\ Len(Reads) <= iter + 1
        /\ pc = "story_read" => (iter < 2 /\ Len(Reads) = iter)
        /\ (pc = "story_fetched" /\ iter = 2) =>
            /\ Len(Reads) = 2
            /\ ~content.none
            /\ content.text = SelectSeq(response.content, LAMBDA token : token # "x")

\* The step part of C10: an iteration of the loop leaves the loop or uses up
\* one of its hops with one read.
C10_LoopStep ==
    pc = "story_read" =>
        \/ pc' \in {"story_fetched", "raised"}
        \/ (pc' = "story_read" /\ iter' = iter + 1 /\ Len(Reads') = Len(Reads) + 1)

\* C10: the loop of _fetch_story ends after at most 2 reads whatever the
\* responses are, and when every page read carries a redirect hint to another
\* url it returns the decoded content of the last page it read.
C10_FetchStoryBounded == [](C10_ReadsInvariant) /\ [][C10_LoopStep]_vars

\* C10 witness: two pages were read, each redirecting further, and the loop
\* returned the text of the second with the url it was never to read.
C10_Witness ==
    /\ args.op = "fetch_story" /\ pc = "story_fetched"
    /\ iter = 2 /\ Len(Reads) = 2
    /\ ~content.none
    /\ url # Reads[2].url
    /\ get_html_redirect_url(content.text) = url

\* What _process_story_webpage made of the page, once it has run.
Extracted == SelectSeq(log, LAMBDA e : e.kind = "extract")

\* The fields a result with content has beyond the content-less ones.
ContentKeys == {"content", "summary", "sentence_count", "accept"}

\* C11: when a hint sentence count is given, the page is not classified as
\* fulltext and its sentence count is at most the hint (equal included), the
\* result of _process_story_webpage has none of content, summary,
\* sentence_count, accept and update_story is not called; when no hint is
\* given or the page is fulltext, a page that is not blank and has a summary
\* is reported with its content.
C11_FulltextRejection ==
    (args.op = "fetch_story" /\ pc = "done" /\ Extracted # <<>>) =>
        LET ex == Extracted[1]
            hint == args.num_sub_sentences
        IN  /\ (hint.given /\ ~ex.fulltext /\ ex.num_sentences <= hint.count) =>
                /\ result.keys \cap ContentKeys = {}
                /\ Count("sink") = 0
            /\ ((~hint.given \/ ex.fulltext) /\ ~ex.blank /\ ~ex.summary_empty) =>
                /\ ContentKeys \subseteq result.keys
                /\ Count("sink") = 1
            /\ (hint.given /\ ~ex.fulltext /\ ex.num_sentences > hint.count
                    /\ ~ex.blank /\ ~ex.summary_empty) =>
                ContentKeys \subseteq result.keys

\* C11 witness: a page with a summary, not fulltext, with exactly as many
\* sentences as the hint, came back without content and without a sink call.
C11_Witness ==
    /\ args.op = "fetch_story" /\ pc = "done" /\ Extracted # <<>>
    /\ args.num_sub_sentences.given
    /\ ~Extracted[1].blank /\ ~Extracted[1].summary_empty /\ ~Extracted[1].fulltext
    /\ Extracted[1].num_sentences = args.num_sub_sentences.count
    /\ args.num_sub_sentences.count = 1
    /\ result.keys \cap ContentKeys = {}
    /\ Count("sink") = 0

\* The fields of a result without content.
DefaultKeys == {"feed_id", "offset", "url", "response_status", "use_proxy"}

\* fetch_story ended by raising instead of returning a result.
Raised == "exc" \in DOMAIN result

\* The part of C12 about the sink: update_story is called at most once, and
\* exactly when the result carries content and a summary; a result returned
\* without the call holds the five content-less fields only.
C12_SinkCallIffContent ==
    (args.op = "fetch_story" /\ pc = "done" /\ ~Raised) =>
        /\ Len(SinkCalls) <= 1
        /\ \A i \in 1..Len(SinkCalls) : SinkCalls[i].call = "update_story"
        /\ (Len(SinkCalls) = 1) <=> ({"content", "summary"} \subseteq result.keys)
        /\ (Len(SinkCalls) = 0) => (result.keys = DefaultKeys)

\* C12: fetch_story calls update_story at most once, exactly when the
\* returned result carries content and a non-empty summary; on every other
\* path it returns, without a sink call and without raising, a result holding
\* only feed_id, offset, url, response_status and use_proxy.
C12_Original ==
    (args.op = "fetch_story" /\ pc = "done") =>
        /\ ~Raised
        /\ C12_SinkCallIffContent

\* C12 failing input: the one read of the invocation yielded no response and
\* fetch_story ended with AttributeError, no result and no sink call.
C12_Witness ==
    /\ args.op = "fetch_story" /\ pc = "done"
    /\ Len(Reads) = 1 /\ response.missing
    /\ Raised /\ result.exc = "AttributeError"
    /\ Len(SinkCalls) = 0

\* The message find_feed adds for a failed normalisation of the found pair.
FailureMessageOf(fate) ==
    IF fate = "Invalid" THEN "invalid feed: invalid feed, feed=url"
    ELSE "invalid feed: feed parser error"

\* The step of find_feed that C13 is about: the found pair fails to normalise.
C13_FailedParseStep ==
    (pc = "find_save" /\ found.present /\ found.raw_result.fate # "ok") =>
        /\ pc' = "done"
        /\ Len(SinkCalls') = Len(SinkCalls) + 1
        /\ LET e == log'[Len(log')]
           IN  /\ IsSink(e, "save_feed_creation_result")
               /\ ~e.payload.feed.present
               /\ e.payload.messages =
                      Append(messages, FailureMessageOf(found.raw_result.fate))

\* C13: when the pair found by discovery fails to normalise with Invalid or
\* FeedParserError, find_feed does not raise: its next step sends
\* save_feed_creation_result with no feed and with the messages of discovery
\* followed by one message naming the failure.
C13_ParseFailureReported == [][C13_FailedParseStep]_vars

\* C13 witness: discovery left one message and found a document the raw
\* parser rejects; the terminal result has no feed and both messages in order.
C13_Witness ==
    /\ args.op = "find_feed" /\ pc = "done"
    /\ found.present /\ found.raw_result.fate = "FeedParserError"
    /\ IsSink(LastEvent, "save_feed_creation_result")
    /\ ~LastEvent.payload.feed.present
    /\ LastEvent.payload.messages =
           <<"finder message", "invalid feed: feed parser error">>

\* The last step of the DNS refresh thread.
LastDnsEvent == dns_log[Len(dns_log)]

\* The steps of the loop of _dns_refresh_main as C14 has them: a refresh
\* attempt, whether it returned or raised, is followed by the sleep, and the
\* sleep by the next refresh attempt; the sleeps of the loop all have the same
\* length.
C14_LoopStep ==
    /\ dns_pc = "refresh" =>
        /\ dns_pc' = "sleep"
        /\ dns_log'[Len(dns_log')].kind = "refresh"
    /\ dns_pc = "sleep" =>
        /\ dns_pc' = "refresh"
        /\ dns_log'[Len(dns_log')] = [kind |-> "sleep", seconds |-> 14400]
    /\ dns_pc = "warmup" =>
        /\ dns_pc' = "refresh"
        /\ dns_log' = <<[kind |-> "sleep", seconds |-> 10]>>
    /\ dns_pc' # "not_started"

\* The thread, once started, is in its warm-up sleep or in its loop.
C14_Running == dns_pc \in {"warmup", "refresh", "sleep"}

\* C14: once started the DNS refresh thread never ends: after the warm-up
\* sleep it attempts a refresh again and again, each attempt is followed by
\* one sleep of the fixed interval, and an attempt that raised any exception
\* is followed by that sleep and by the next attempt like one that returned.
C14_Original ==
    /\ [][dns_pc # "not_started" => C14_LoopStep]_vars
    /\ [](dns_pc # "not_started" => C14_Running)
    /\ [](C14_Running => <>(dns_pc = "refresh"))
    /\ [](C14_Running => <>(dns_pc = "sleep"))
    /\ []((dns_pc # "not_started" /\ dns_log # <<>>
             /\ LastDnsEvent.kind = "refresh" /\ LastDnsEvent.outcome # "returned")
              => <>(dns_pc = "refresh"
                       /\ LastDnsEvent = [kind |-> "sleep", seconds |-> 14400]))

\* C14 failing input: after the warm-up sleep the first refresh attempt raised
\* an exception that except Exception does not catch, and the thread ended
\* without a sleep and without another attempt.
C14_Witness ==
    /\ dns_pc = "exited"
    /\ dns_log = <<[kind |-> "sleep", seconds |-> 10],
                   [kind |-> "refresh", outcome |-> "BaseException"]>>

\* The steps of the loop when the refresh attempt returned or raised an
\* Exception: the sleep of the interval follows, then the next attempt; and
\* the thread ends on no other step than an attempt that raised otherwise.
C14_CaughtStep ==
    /\ (dns_pc = "refresh" /\ dns_log'[Len(dns_log')].outcome # "BaseException") =>
        dns_pc' = "sleep"
    /\ dns_pc = "sleep" =>
        /\ dns_pc' = "refresh"
        /\ dns_log'[Len(dns_log')] = [kind |-> "sleep", seconds |-> 14400]
    /\ dns_pc' = "exited" =>
        /\ dns_pc = "refresh"
        /\ dns_log'[Len(dns_log')] = [kind |-> "refresh", outcome |-> "BaseException"]

\* What holds of the loop: an attempt that returned or raised an Exception
\* is followed by the sleep and by the next attempt.
C14_ExceptionCaught ==
    /\ [][C14_CaughtStep]_vars
    /\ [](dns_pc = "sleep" => <>(dns_pc = "refresh"))

\* An attempt raised an Exception, the thread slept the interval and made its
\* next attempt.
C14_CaughtAndRetried ==
    /\ dns_pc \in {"sleep", "exited"}
    /\ Len(dns_log) >= 4
    /\ dns_log[Len(dns_log) - 2] = [kind |-> "refresh", outcome |-> "Exception"]
    /\ dns_log[Len(dns_log) - 1] = [kind |-> "sleep", seconds |-> 14400]
    /\ LastDnsEvent.kind = "refresh"

\* The checksum the feed parser was built with in this invocation.
FeedParses == SelectSeq(log, LAMBDA e : e.kind = "feed_parse")

\* C15: a forced refresh uses none of the caller's change-detection state:
\* every read, the proxy retry included, is issued without etag and
\* last_modified; a content hash equal to the caller's does not end the sync
\* before the parse; the feed parser is built without the caller's checksum;
\* and a fetched document that parses and validates ends in update_feed with
\* is_refresh = true, carrying every entry that passes the story schema.
C15_ForcedRefresh ==
    (args.op = "sync_feed" /\ args.is_refresh) =>
        /\ \A i \in 1..Len(Reads) :
               Reads[i].params = [etag |-> None, last_modified |-> None]
        /\ \A i \in 1..Len(FeedParses) :
               /\ ~FeedParses[i].checksum.loaded
               /\ FeedParses[i].checksum.history = <<>>
        /\ (pc = "done" /\ response.ok /\ response.content # "") =>
               /\ Count("raw_parse") = 1
               /\ ~IsSink(LastEvent, "update_feed_info") \/ LastEvent.payload.status = ERROR
        /\ (pc = "done" /\ found.present /\ found.raw_result.fate = "ok") =>
               /\ IsSink(LastEvent, "update_feed")
               /\ LastEvent.payload.is_refresh
               /\ Len(ValidateInput) = Len(found.raw_result.storys)
               /\ Len(LastEvent.payload.feed.storys) =
                      Len(SelectSeq(found.raw_result.storys,
                                    LAMBDA e : e.schema_ok))

\* C15 witness: a forced refresh with tokens, the hash of the fetched content
\* and a checksum that knows the first entry read twice without tokens and
\* reported that entry by update_feed.
C15_Witness ==
    /\ args.op = "sync_feed" /\ pc = "done" /\ args.is_refresh
    /\ args.etag # None /\ args.last_modified # None
    /\ args.checksum_data = <<1>>
    /\ args.content_hash_base64 = compute_hash_base64(response.content)
    /\ Len(Reads) = 2
    /\ IsSink(LastEvent, "update_feed") /\ LastEvent.payload.is_refresh
    /\ Len(LastEvent.payload.feed.storys) = 1
    /\ LastEvent.payload.feed.storys[1].ident = 1

\* The one report of a sync that ended in a parse or validation failure.
ErrorReport(message) ==
    <<SinkEvent("update_feed_info",
                [status |-> ERROR, response_status |-> response.status,
                 warnings |-> message])>>

\* C16: in sync_feed a failure of the raw parser, and a FeedParserError or a
\* feed validation failure raised by the normalisation, end the invocation
\* with update_feed_info(status ERROR, warnings = the failure message) as its
\* only sink call, update_feed never called; a raw result that only carries
\* parser warnings is normalised and reported by update_feed.
C16_ParseFailureTerminal ==
    (args.op = "sync_feed" /\ pc = "done" /\ Count("raw_parse") = 1) =>
        /\ (~found.present) =>
            /\ SinkCalls = ErrorReport("raw parser error")
            /\ Count("feed_parse") = 0
        /\ (found.present /\ found.raw_result.fate = "FeedParserError") =>
            SinkCalls = ErrorReport("feed parser error")
        /\ (found.present /\ found.raw_result.fate = "Invalid") =>
            /\ SinkCalls = ErrorReport("invalid feed, feed=url")
            /\ Count("validate_feed") = 1
        /\ (found.present /\ found.raw_result.fate = "ok") =>
            /\ Count("feed_parse") = 1
            /\ Len(SinkCalls) = 1
            /\ IsSink(LastEvent, "update_feed")
            /\ LastEvent.payload.feed.warnings =
                   (IF found.raw_result.warnings = <<>> THEN None ELSE "w1; w2")

\* C16 witness: a document with parser warnings was normalised, the feed
\* schema rejected it, and the sync ended with the ERROR report.
C16_Witness ==
    /\ args.op = "sync_feed" /\ pc = "done"
    /\ found.present /\ found.raw_result.fate = "Invalid"
    /\ found.raw_result.warnings # <<>>
    /\ Count("validate_feed") = 1
    /\ IsSink(LastEvent, "update_feed_info")
    /\ LastEvent.payload.status = ERROR
    /\ LastEvent.payload.warnings = "invalid feed, feed=url"

\* The loop of _fetch_story has ended: it returned, or an exception left it.
LoopEnded == args.op = "fetch_story" /\ pc \in {"story_fetched", "raised"}

\* The last read yielded a response that is ok and has a body.
LastReadUsable == (~response.missing) /\ response.ok /\ response.content # <<>>

\* The part of C17 about what the loop returns: content exactly when the last
\* read was usable, and then the decoded body of that read.
C17_ContentOfLastRead ==
    (args.op = "fetch_story" /\ pc = "story_fetched") =>
        /\ content.none <=> ~LastReadUsable
        /\ ~content.none =>
               content.text = SelectSeq(response.content, LAMBDA token : token # "x")

\* C17: when the loop of _fetch_story returns content, it is the decoded body
\* of the last read and that read was ok and non-empty; when the last read is
\* missing, failed or empty the loop returns no content, whatever an earlier
\* hop had retrieved.
C17_Original ==
    LoopEnded =>
        /\ pc = "story_fetched"
        /\ C17_ContentOfLastRead

\* C17 failing input: the first page was usable and redirected, the read of
\* its target yielded no response, and AttributeError left the loop with the
\* first page still held as content.
C17_Witness ==
    /\ args.op = "fetch_story" /\ pc = "raised"
    /\ Len(Reads) = 2 /\ iter = 1
    /\ response.missing
    /\ ~content.none

\* The loop returned no content after a first hop that had retrieved some:
\* the second read failed.
C17_SecondHopFailed ==
    /\ args.op = "fetch_story" /\ pc = "story_fetched"
    /\ Len(Reads) = 2 /\ iter = 1
    /\ ~response.missing /\ ~response.ok
    /\ content.none

\* C18: the url of every result of fetch_story, and the url sent to
\* update_story, is the url the caller supplied, whatever final url the
\* transport reported and whatever redirect the loop followed; the
\* response_status and use_proxy of the result are those of the last response
\* of the loop.
C18_ResultUrlIsCallerUrl ==
    (args.op = "fetch_story" /\ pc = "done" /\ ~Raised) =>
        /\ "url" \in result.keys
        /\ result.url = "u0"
        /\ result.url = args.url
        /\ result.response_status = response.status
        /\ result.use_proxy = response.use_proxy
        /\ \A i \in 1..Len(SinkCalls) : SinkCalls[i].payload.url = "u0"

\* C18 witness: the transport reported another final url, the loop followed a
\* redirect hint and ended on a third url, and the story was reported to
\* update_story and returned under the caller's url.
C18_Witness ==
    /\ args.op = "fetch_story" /\ pc = "done" /\ ~Raised
    /\ Len(Reads) = 2
    /\ Reads[2].url # "u0"
    /\ url \notin {"u0", Reads[2].url}
    /\ response.status = 200
    /\ Len(SinkCalls) = 1
    /\ SinkCalls[1].payload.url = "u0"
    /\ "content" \in result.keys
    /\ result.url = "u0"

====
